---- MODULE Spec2Model ----
(***************************************************************************)
(* A model of gtfstidy's RouteDuplicateRemover and IDMinimizer processors  *)
(* (package processors) running on a gtfsparser.Feed, and of main, which   *)
(* parses a feed, runs the selected processors and writes the result.      *)
(*                                                                         *)
(* Entities are heap objects addressed by references (naturals); a feed    *)
(* collection is a Go map from identifier to reference.  Identifiers are   *)
(* sequences of one-character strings.                                     *)
(***************************************************************************)
EXTENDS Integers, Sequences, FiniteSets, TLC

VARIABLES
    feed,       \* gtfsparser.Feed: one id -> reference map per collection
    Route,      \* heap of gtfs.Route objects
    Trip,       \* heap of gtfs.Trip objects
    FareAttribute, \* heap of gtfs.FareAttribute objects
    entId,      \* Id field of the Stop, Shape, Agency and Service objects
    proc,       \* which processor's Run is executing: "rdr" or "idm"
    pc,         \* position of Run
    run,        \* how many times Run has been invoked on this feed
    chunks,     \* RouteDuplicateRemover.Run: chunks
    trips,      \* RouteDuplicateRemover.Run: trips (route -> its trips)
    proced,     \* RouteDuplicateRemover.Run: proced
    ranged,     \* keys already produced by Run's range over feed.Routes
    comb,       \* the running combineRoutes call: routes, ref, next index
    base,       \* IDMinimizer.Base
    task,       \* IDMinimizer.Run: position of each of the six goroutines
    sem,        \* IDMinimizer.Run: completion channel (capacity, buffered, received)
    loc,        \* IDMinimizer: locals of a goroutine inside its loop
    input,      \* history: the feed and heaps handed to the first Run
    par,        \* the value MaxParallelism() returns on this machine
    scan,       \* the running getEquivalentRoutes call: workers, rets, sem
    opts,       \* main: the command line
    drv         \* main: position, minzers, running processor, exit status

feedVars == <<feed, Route, Trip, FareAttribute, entId>>
rdrVars  == <<chunks, trips, proced, ranged, comb>>
idmVars  == <<base, task, sem, loc>>
scanVars == <<par, scan>>
mainVars == <<opts, drv>>
vars     == <<feed, Route, Trip, FareAttribute, entId, proc, pc, run,
              chunks, trips, proced, ranged, comb, base, task, sem, loc,
              input, par, scan, opts, drv>>

----------------------------------------------------------------------------
(* Bounds of the model.                                                    *)

NumRoutes == 3        \* routes of the largest feed of the broad family
NumTrips == 4         \* trips of a feed
NumFares == 2         \* fare attributes of a feed
MaxRules == 2         \* rules of the first fare attribute, broad family
MaxRulesDeep == 4     \* rules of the first fare attribute, deep family
MaxParallelism == 2   \* value of MaxParallelism(): number of chunks

----------------------------------------------------------------------------
(* Generic helpers.                                                        *)

Range(s) == {s[i] : i \in DOMAIN s}

Min(a, b) == IF a < b THEN a ELSE b

RemoveAt(s, i) == SubSeq(s, 1, i - 1) \o SubSeq(s, i + 1, Len(s))

RECURSIVE Flatten(_)
Flatten(ss) == IF ss = <<>> THEN <<>> ELSE Head(ss) \o Flatten(Tail(ss))

\* All sequences without repetition that enumerate the finite set S.
RECURSIVE Perms(_)
Perms(S) ==
    IF S = {} THEN {<<>>}
    ELSE UNION {{<<x>> \o p : p \in Perms(S \ {x})} : x \in S}

\* All sequences over S of length at most n.
RECURSIVE SeqsUpTo(_, _)
SeqsUpTo(S, n) ==
    IF n = 0 THEN {<<>>}
    ELSE LET shorter == SeqsUpTo(S, n - 1)
         IN  shorter \cup {Append(s, x) : s \in {t \in shorter : Len(t) = n - 1}, x \in S}

\* delete(m, k) on a Go map.
MapDelete(m, k) == [x \in DOMAIN m \ {k} |-> m[x]]

\* m[k] = v on a Go map.
MapPut(m, k, v) == [x \in DOMAIN m \cup {k} |-> IF x = k THEN v ELSE m[x]]

EmptyMap == [x \in {} |-> 0]

\* The digit alphabet of strconv.FormatInt.
Digits == <<"0", "1", "2", "3", "4", "5", "6", "7", "8", "9",
            "a", "b", "c", "d", "e", "f", "g", "h", "i", "j",
            "k", "l", "m", "n", "o", "p", "q", "r", "s", "t",
            "u", "v", "w", "x", "y", "z">>

----------------------------------------------------------------------------
(* RouteDuplicateRemover: pure parts.                                      *)

\* routeEquals: a and b are gtfs.Route objects. Url is a *url.URL: 0 is nil,
\* any other value a pointer whose String() is UrlString(pointer).
UrlString(u) == IF u % 2 = 1 THEN "u" ELSE "v"

routeEquals(a, b) ==
    /\ a.Agency = b.Agency
    /\ a.Short_name = b.Short_name
    /\ a.Long_name = b.Long_name
    /\ a.Desc = b.Desc
    /\ a.Type = b.Type
    /\ \/ (a.Url # 0 /\ b.Url # 0 /\ UrlString(a.Url) = UrlString(b.Url))
       \/ a.Url = b.Url
    /\ a.Color = b.Color
    /\ a.Text_color = b.Text_color

\* The comparison of two fare rules in fareRulesEqual.
ruleMatches(r, o) ==
    /\ r.Origin_id = o.Origin_id
    /\ r.Destination_id = o.Destination_id
    /\ r.Contains_id = o.Contains_id

\* Index of the first rule of rs matching r, 0 if there is none.
RECURSIVE FirstMatch(_, _, _)
FirstMatch(rs, r, i) ==
    IF i > Len(rs) THEN 0
    ELSE IF ruleMatches(r, rs[i]) THEN i
    ELSE FirstMatch(rs, r, i + 1)

\* One step of fareRulesEqual's loop: first the r.Route == a branch, then the
\* r.Route == b branch on what the first left. st = <<rulesA, rulesB>>.
fareRulesStep(r, a, b, st) ==
    LET mB == FirstMatch(st[2], r, 1)
        s1 == IF r.Route = a
              THEN IF mB > 0 THEN <<st[1], RemoveAt(st[2], mB)>>
                             ELSE <<Append(st[1], r), st[2]>>
              ELSE st
        mA == FirstMatch(s1[1], r, 1)
    IN  IF r.Route = b
        THEN IF mA > 0 THEN <<RemoveAt(s1[1], mA), s1[2]>>
                       ELSE <<s1[1], Append(s1[2], r)>>
        ELSE s1

RECURSIVE fareRulesScan(_, _, _, _, _)
fareRulesScan(rules, i, a, b, st) ==
    IF i > Len(rules) THEN st
    ELSE fareRulesScan(rules, i + 1, a, b, fareRulesStep(rules[i], a, b, st))

\* fareRulesEqual(attr, a, b), attr given by its rule list.
fareRulesEqual(rules, a, b) ==
    LET st == fareRulesScan(rules, 1, a, b, <<<<>>, <<>>>>)
    IN  Len(st[1]) = 0 /\ Len(st[2]) = 0

\* checkFareEquality(feed, a, b): fares is feed.FareAttributes, heap the
\* FareAttribute heap.
checkFareEquality(fares, heap, a, b) ==
    \A k \in DOMAIN fares :
        LET rules == heap[fares[k]].Rules
        IN  (\E i \in DOMAIN rules : rules[i].Route = a \/ rules[i].Route = b)
                => fareRulesEqual(rules, a, b)

\* The body of one worker of getEquivalentRoutes on its chunk.
scanChunk(chunk, route, fares, heap, rheap) ==
    LET keep(r) == /\ r # route
                   /\ routeEquals(rheap[r], rheap[route])
                   /\ checkFareEquality(fares, heap, route, r)
    IN  SelectSeq(chunk, keep)

\* getEquivalentRoutes(route, feed, chunks): the concatenated worker results.
getEquivalentRoutes(route, fares, heap, rheap, chs) ==
    Flatten([j \in DOMAIN chs |-> scanChunk(chs[j], route, fares, heap, rheap)])

\* Run's chunking loop over the routes in enumeration order `order`: the
\* chunks, and whether chunks[curchunk] was indexed out of range.
RECURSIVE fillChunks(_, _, _, _, _)
fillChunks(order, i, chs, curchunk, chunksize) ==
    IF i > Len(order) THEN [chunks |-> chs, panic |-> FALSE]
    ELSE IF curchunk > Len(chs) THEN [chunks |-> chs, panic |-> TRUE]
    ELSE LET added == [chs EXCEPT ![curchunk] = Append(@, order[i])]
         IN  fillChunks(order, i + 1, added,
                        IF Len(added[curchunk]) = chunksize
                        THEN curchunk + 1 ELSE curchunk,
                        chunksize)

\* Lines 27-39 for numchunks = MaxParallelism().
chunkSize(n, numchunks) == (n + numchunks - 1) \div numchunks

buildChunks(order, numchunks) ==
    fillChunks(order, 1, [j \in 1..numchunks |-> <<>>], 1,
               chunkSize(Len(order), numchunks))

\* combineRoutes' choice of the reference route: the first of routes with a
\* strictly shortest Id.
RECURSIVE pickRef(_, _, _, _)
pickRef(routes, i, ref, rheap) ==
    IF i > Len(routes) THEN ref
    ELSE pickRef(routes, i + 1,
                 IF Len(rheap[routes[i]].Id) < Len(rheap[ref].Id)
                 THEN routes[i] ELSE ref,
                 rheap)

\* combineRoutes' toDel: the (1-based) positions of the rules on route r.
RECURSIVE toDelOf(_, _, _)
toDelOf(rules, r, j) ==
    IF j > Len(rules) THEN <<>>
    ELSE (IF rules[j].Route = r THEN <<j>> ELSE <<>>) \o toDelOf(rules, r, j + 1)

\* combineRoutes' removal loop: for each j of toDel the last rule is moved to
\* position j and the list cut by one. An index beyond the list panics.
RECURSIVE swapDelete(_, _, _)
swapDelete(rules, toDel, k) ==
    IF k > Len(toDel) THEN [Rules |-> rules, panic |-> FALSE]
    ELSE IF toDel[k] > Len(rules) THEN [Rules |-> rules, panic |-> TRUE]
    ELSE swapDelete(SubSeq([rules EXCEPT ![toDel[k]] = rules[Len(rules)]],
                           1, Len(rules) - 1),
                    toDel, k + 1)

removeRules(rules, r) == swapDelete(rules, toDelOf(rules, r, 1), 1)

\* Mutant of deleteAttr: emptyBef is not looked at.
deleteAttrIgnoringBefore(rulesNow, emptyBef) == Len(rulesNow) = 0

\* combineRoutes' rule: delete the attribute if it is empty now and was not.
deleteAttr(rulesNow, emptyBef) == Len(rulesNow) = 0 /\ ~emptyBef

\* combineRoutes' loop over feed.FareAttributes for superseded route r, the
\* attributes visited in the order `order` (a sequence of map keys).
\* st = [fares, heap, panic].
RECURSIVE purgeFares(_, _, _, _)
purgeFares(order, i, r, st) ==
    IF i > Len(order) \/ st.panic THEN st
    ELSE LET fa == st.fares[order[i]]
             emptyBef == Len(st.heap[fa].Rules) = 0
             res == removeRules(st.heap[fa].Rules, r)
             heap2 == [st.heap EXCEPT ![fa].Rules = res.Rules]
         IN  IF res.panic
             THEN [fares |-> st.fares, heap |-> heap2, panic |-> TRUE]
             ELSE purgeFares(order, i + 1, r,
                    [fares |-> IF deleteAttr(res.Rules, emptyBef)
                               THEN MapDelete(st.fares, st.heap[fa].Id)
                               ELSE st.fares,
                     heap |-> heap2, panic |-> FALSE])

\* combineRoutes' repointing of the trips indexed under r.
repoint(theap, ts, r, ref) ==
    [t \in DOMAIN theap |->
        IF t \in ts /\ theap[t].Route = r
        THEN [theap[t] EXCEPT !.Route = ref] ELSE theap[t]]

\* Mutant of deleteRoute: the superseded route stays in the collection.
deleteRouteForgotten(rmap, id) == rmap

\* combineRoutes' delete(feed.Routes, r.Id).
deleteRoute(rmap, id) == MapDelete(rmap, id)

----------------------------------------------------------------------------
(* The feeds handed to a processor.                                        *)

\* Identifiers: R1, R2, R33, R4, ...: every third route has a longer one.
RouteId(i) == IF i % 3 = 0 THEN <<"R", Digits[i + 1], Digits[i + 1]>>
                           ELSE <<"R", Digits[i + 1]>>
TripId(i) == <<"T", Digits[i + 1]>>
FareId(i) == <<"F", Digits[i + 1]>>
OtherId(i) == <<"x", "x", Digits[i + 1]>>

\* The map of a collection holding objects 1..n under the ids Id(1)..Id(n).
MapOf(n, Id(_)) ==
    [k \in {Id(i) : i \in 1..n} |-> CHOOSE i \in 1..n : Id(i) = k]

\* The descriptive fields of route i of a feed of n routes, in feed shape v:
\*   0  all routes alike, no url
\*   1  the last route has another short name
\*   2  every route has a url object of its own, all with the same text
\*   3  only the last route has a url
\*   4  as 2, but the last route's url has another text
FeedShapes == 0..4

RouteObj(i, n, v) ==
    [Id |-> RouteId(i), Agency |-> 1,
     Short_name |-> IF v = 1 /\ i = n THEN "11" ELSE "10",
     Long_name |-> "", Desc |-> "", Type |-> 3,
     Url |-> CASE v \in {0, 1} -> 0
               [] v = 2 -> 2 * i - 1
               [] v = 3 -> IF i = n THEN 2 * i - 1 ELSE 0
               [] v = 4 -> IF i = n THEN 2 * i ELSE 2 * i - 1,
     Color |-> "", Text_color |-> ""]

\* The origin/destination/contains triple of a rule of kind k.
RuleObj(r, k) ==
    [Route |-> r, Origin_id |-> "a",
     Destination_id |-> IF k % 2 = 1 THEN "b" ELSE "c",
     Contains_id |-> IF k <= 2 THEN "" ELSE "d"]

\* Fare rules sit on the first two routes of a feed and are of two kinds.
FareRoutes(n) == 1..Min(n, 2)
Kinds == {1, 2}

RuleValues(n, kinds) == {RuleObj(r, k) : r \in FareRoutes(n), k \in kinds}

OtherColls == {"Stops", "Shapes", "Agencies", "Services"}

\* The feed holding routes 1..n, trips 1..nTrips, fare attributes 1..NumFares,
\* one agency and other[c] objects in each further collection c.
FeedOf(n, nTrips, other) ==
    [Routes |-> MapOf(n, RouteId),
     Trips |-> MapOf(nTrips, TripId),
     FareAttributes |-> MapOf(NumFares, FareId),
     Stops |-> MapOf(other.Stops, OtherId),
     Shapes |-> MapOf(other.Shapes, OtherId),
     Agencies |-> MapOf(other.Agencies, OtherId),
     Services |-> MapOf(other.Services, OtherId)]

\* Trip t runs on route ((t - 1) mod n) + 1.
TripsOf(n, nTrips) ==
    [t \in 1..nTrips |-> [Id |-> TripId(t), Route |-> ((t - 1) % n) + 1]]

FaresOf(rules) ==
    [f \in 1..NumFares |-> [Id |-> FareId(f), Rules |-> rules[f]]]

\* The feed of n routes in shape v, nTrips trips (none without routes), the
\* rule lists rules[f] and other[c] further objects.
InitFeed(n, nTrips, v, rules, other) ==
    LET nT == IF n = 0 THEN 0 ELSE nTrips
    IN  /\ feed = FeedOf(n, nT, other)
        /\ Route = [i \in 1..n |-> RouteObj(i, n, v)]
        /\ Trip = TripsOf(n, nT)
        /\ FareAttribute = FaresOf(rules)
        /\ entId = [c \in OtherColls |-> [i \in 1..other[c] |-> OtherId(i)]]
        /\ input = [feed |-> FeedOf(n, nT, other),
                    Trip |-> TripsOf(n, nT),
                    FareAttribute |-> FaresOf(rules)]

\* The feeds of the RouteDuplicateRemover runs hold one agency and nothing else.
OneAgency == [c \in OtherColls |-> IF c = "Agencies" THEN 1 ELSE 0]

NoComb == [routes |-> <<>>, ref |-> 0, i |-> 0]

\* No getEquivalentRoutes call is running.
NoScan == [route |-> 0, pos |-> <<>>, sent |-> <<>>, rets |-> <<>>,
           buf |-> 0, got |-> 0]

\* The processor is not run by main.
NoOpts == [mode |-> "none"]

NoDrv == [pc |-> "none"]

InitLocals ==
    /\ chunks = <<>>
    /\ trips = EmptyMap
    /\ proced = {}
    /\ ranged = {}
    /\ comb = NoComb
    /\ task = EmptyMap
    /\ sem = [cap |-> 0, buf |-> 0, got |-> 0]
    /\ loc = EmptyMap
    /\ scan = NoScan

\* The rule lists of a feed: the first attribute holds r1, every further one
\* rest[f].
RulesOf(r1, rest) == [f \in 1..NumFares |-> IF f = 1 THEN r1 ELSE rest[f]]

NoRest == [f \in 2..NumFares |-> <<>>]

\* Broad family: up to NumRoutes routes alike, up to MaxRules rules in the
\* first attribute, every further attribute empty or with one rule.
InitBroad ==
    \E n \in 0..NumRoutes :
      \E r1 \in SeqsUpTo(RuleValues(n, Kinds), MaxRules),
         rest \in [2..NumFares -> SeqsUpTo(RuleValues(Min(n, 1), {1}), 1)] :
            InitFeed(n, NumTrips, 0, RulesOf(r1, rest), OneAgency)

\* Shaped family: up to NumRoutes routes whose last differs from the others,
\* or whose urls are objects of their own; at most one fare rule.
InitShaped ==
    \E n \in 1..NumRoutes, v \in FeedShapes \ {0} :
      \E r1 \in SeqsUpTo(RuleValues(n, {1}), 1) :
            InitFeed(n, NumTrips, v, RulesOf(r1, NoRest), OneAgency)

\* Deep family: two routes alike, up to MaxRulesDeep rules in one attribute.
InitDeep ==
    \E r1 \in SeqsUpTo(RuleValues(2, Kinds), MaxRulesDeep) :
        InitFeed(2, NumTrips, 0, RulesOf(r1, NoRest), OneAgency)

\* Wide family: NumRoutes + 1 routes alike, rules of one kind.
InitWide ==
    \E r1 \in SeqsUpTo(RuleValues(2, {1}), MaxRules) :
        InitFeed(NumRoutes + 1, NumTrips, 0, RulesOf(r1, NoRest), OneAgency)

\* RouteDuplicateRemover is handed any feed of the four families.
Init ==
    /\ InitBroad \/ InitShaped \/ InitDeep \/ InitWide
    /\ proc = "rdr"
    /\ pc = "start"
    /\ run = 1
    /\ base = 10
    /\ par = MaxParallelism
    /\ opts = NoOpts
    /\ drv = NoDrv
    /\ InitLocals

----------------------------------------------------------------------------
(* RouteDuplicateRemover.Run                                               *)

\* Lines 23-43: the chunks, in the order the range over feed.Routes yields the
\* routes, and the trips of every route.
RunStart ==
    /\ proc = "rdr" /\ pc = "start"
    /\ \E order \in Perms(DOMAIN feed.Routes) :
         LET built == buildChunks([i \in 1..Len(order) |-> feed.Routes[order[i]]],
                                  par)
         IN  /\ chunks' = built.chunks
             /\ pc' = IF built.panic THEN "panic" ELSE "loop"
    /\ trips' = [r \in DOMAIN Route |->
                   {t \in Range(feed.Trips) : Trip[t].Route = r}]
    /\ proced' = {}
    /\ ranged' = {}
    /\ comb' = NoComb
    /\ UNCHANGED <<feedVars, proc, run, idmVars, input, scanVars, mainVars>>

\* Lines 45-51: one iteration of the range over feed.Routes, up to the call of
\* combineRoutes (lines 167-173: the choice of ref). A range over a Go map
\* yields every entry not yet produced that is still in the map.
RunNext ==
    /\ proc = "rdr" /\ pc = "loop"
    /\ \E k \in DOMAIN feed.Routes \ ranged :
         LET r == feed.Routes[k]
             eqRoutes == getEquivalentRoutes(r, feed.FareAttributes,
                                             FareAttribute, Route, chunks)
             routes == Append(eqRoutes, r)
         IN  /\ ranged' = ranged \cup {k}
             /\ IF r \notin proced /\ Len(eqRoutes) > 0
                THEN /\ comb' = [routes |-> routes,
                                 ref |-> pickRef(routes, 1, routes[1], Route),
                                 i |-> 1]
                     /\ pc' = "combine"
                ELSE UNCHANGED <<comb, pc>>
    /\ UNCHANGED <<feedVars, proc, run, chunks, trips, proced, idmVars, input, scanVars, mainVars>>

\* Lines 175-213: combineRoutes' loop body for routes[i]; after the last
\* route, lines 54-58 of Run mark the routes processed.
CombineStep ==
    /\ proc = "rdr" /\ pc = "combine"
    /\ LET r == comb.routes[comb.i]
           last == comb.i = Len(comb.routes)
       IN  IF r = comb.ref
           THEN /\ UNCHANGED feedVars
                /\ comb' = IF last THEN NoComb ELSE [comb EXCEPT !.i = @ + 1]
                /\ proced' = IF last THEN proced \cup Range(comb.routes) ELSE proced
                /\ pc' = IF last THEN "loop" ELSE "combine"
           ELSE \E order \in Perms(DOMAIN feed.FareAttributes) :
                  LET st == purgeFares(order, 1, r,
                                [fares |-> feed.FareAttributes,
                                 heap |-> FareAttribute, panic |-> FALSE])
                  IN  /\ Trip' = repoint(Trip, trips[r], r, comb.ref)
                      /\ FareAttribute' = st.heap
                      /\ feed' = [feed EXCEPT
                                    !.FareAttributes = st.fares,
                                    !.Routes = IF st.panic THEN @
                                               ELSE deleteRoute(@, Route[r].Id)]
                      /\ comb' = IF st.panic THEN comb
                                 ELSE IF last THEN NoComb
                                 ELSE [comb EXCEPT !.i = @ + 1]
                      /\ proced' = IF ~st.panic /\ last
                                   THEN proced \cup Range(comb.routes) ELSE proced
                      /\ pc' = IF st.panic THEN "panic"
                               ELSE IF last THEN "loop" ELSE "combine"
                      /\ UNCHANGED <<Route, entId>>
    /\ UNCHANGED <<proc, run, chunks, trips, ranged, idmVars, input, scanVars, mainVars>>

\* Line 62: the range is exhausted and Run returns.
RunReturn ==
    /\ proc = "rdr" /\ pc = "loop"
    /\ DOMAIN feed.Routes \ ranged = {}
    /\ pc' = "done"
    /\ chunks' = <<>>
    /\ trips' = EmptyMap
    /\ proced' = {}
    /\ ranged' = {}
    /\ UNCHANGED <<feedVars, proc, run, comb, idmVars, input, scanVars, mainVars>>

\* The processor is run a second time on its own output.
MaxRuns == 2

RunAgain ==
    /\ pc = "done" /\ run < MaxRuns
    /\ run' = run + 1
    /\ pc' = "start"
    /\ UNCHANGED <<feedVars, proc, rdrVars, idmVars, input, scanVars, mainVars>>

Next == RunStart \/ RunNext \/ CombineStep \/ RunReturn \/ RunAgain

Spec == Init /\ [][Next]_vars

----------------------------------------------------------------------------
(* IDMinimizer                                                             *)

\* strconv.FormatInt(n, b) for n >= 0 and 2 <= b <= 36.
RECURSIVE FormatInt(_, _)
FormatInt(n, b) ==
    IF n < b THEN <<Digits[n + 1]>>
    ELSE Append(FormatInt(n \div b, b), Digits[(n % b) + 1])

\* Mutant of newId: the counter starts at 0.
newIdFromZero(idCount, b) == FormatInt(idCount - 1, b)

\* The identifier given to the idCount-th entity of a collection.
newId(idCount, b) == FormatInt(idCount, b)

\* The loop of minimizeTripIds .. minimizeAgencyIds over the collection m,
\* its keys produced in the order `order`: st.ids is the Id field of every
\* object of the collection's type, st.newMap the new map.
RECURSIVE renumber(_, _, _, _, _, _)
renumber(m, order, i, idCount, b, st) ==
    IF i > Len(order) THEN st
    ELSE LET e == m[order[i]]
             id == newId(idCount, b)
         IN  renumber(m, order, i + 1, idCount + 1, b,
                      [ids |-> [st.ids EXCEPT ![e] = id],
                       newMap |-> MapPut(st.newMap, id, e)])

minimizeIds(m, order, ids, b) ==
    renumber(m, order, 1, 1, b, [ids |-> ids, newMap |-> EmptyMap])

\* Mutant of assignColl: the shapes' goroutine assigns feed.Stops.
assignCollMixedUp(f, c, newMap) ==
    [f EXCEPT ![IF c = "Shapes" THEN "Stops" ELSE c] = newMap]

\* Lines 70, 84, 98, 112, 126, 140: feed.<collection> = newMap.
assignColl(f, c, newMap) == [f EXCEPT ![c] = newMap]

\* The six goroutines of Run, by the collection each renumbers.
Tasks == {"Trips", "Stops", "Routes", "Shapes", "Agencies", "Services"}

\* Mutant of NumTasks: Run's loop receives one signal fewer.
NumTasksOneShort == Cardinality(Tasks) - 1

\* Line 52: the number of signals Run receives.
NumTasks == 6

\* The Id fields of the objects of collection c.
IdsOf(c) ==
    CASE c = "Trips" -> [t \in DOMAIN Trip |-> Trip[t].Id]
      [] c = "Routes" -> [r \in DOMAIN Route |-> Route[r].Id]
      [] OTHER -> entId[c]

\* Lines 25-50: the channel is made and the goroutines are started.
IdmStart ==
    /\ proc = "idm" /\ pc = "start"
    /\ sem' = [cap |-> Cardinality(DOMAIN feed.Services), buf |-> 0, got |-> 0]
    /\ task' = [c \in Tasks |-> "todo"]
    /\ pc' = "wait"
    /\ UNCHANGED <<feedVars, proc, run, rdrVars, base, loc, input, scanVars, mainVars>>

\* minimizeTripIds .. minimizeAgencyIds run by the goroutine of collection c.
IdmMinimize(c) ==
    /\ proc = "idm" /\ pc = "wait" /\ task[c] = "todo"
    /\ \E order \in Perms(DOMAIN feed[c]) :
         LET res == minimizeIds(feed[c], order, IdsOf(c), base)
         IN  /\ feed' = assignColl(feed, c, res.newMap)
             /\ Trip' = IF c = "Trips"
                        THEN [t \in DOMAIN Trip |-> [Trip[t] EXCEPT !.Id = res.ids[t]]]
                        ELSE Trip
             /\ Route' = IF c = "Routes"
                         THEN [r \in DOMAIN Route |-> [Route[r] EXCEPT !.Id = res.ids[r]]]
                         ELSE Route
             /\ entId' = IF c \in OtherColls
                         THEN [entId EXCEPT ![c] = res.ids]
                         ELSE entId
    /\ task' = [task EXCEPT ![c] = "min"]
    /\ UNCHANGED <<FareAttribute, proc, pc, run, rdrVars, base, loc, sem, input, scanVars, mainVars>>

\* sem <- empty{} of the goroutine of collection c: into the buffer if the
\* channel has one with room, else handed to Run's pending receive.
IdmSignal(c) ==
    /\ proc = "idm" /\ pc = "wait" /\ task[c] = "min"
    /\ IF sem.cap > 0
       THEN /\ sem.buf < sem.cap
            /\ sem' = [sem EXCEPT !.buf = @ + 1]
       ELSE /\ sem.got < NumTasks
            /\ sem' = [sem EXCEPT !.got = @ + 1]
    /\ task' = [task EXCEPT ![c] = "sent"]
    /\ UNCHANGED <<feedVars, proc, pc, run, rdrVars, base, loc, input, scanVars, mainVars>>

\* Lines 52-54: <-sem takes a buffered signal.
IdmReceive ==
    /\ proc = "idm" /\ pc = "wait"
    /\ sem.got < NumTasks /\ sem.buf > 0
    /\ sem' = [sem EXCEPT !.buf = @ - 1, !.got = @ + 1]
    /\ UNCHANGED <<feedVars, proc, pc, run, rdrVars, base, loc, task, input, scanVars, mainVars>>

\* Line 56: six signals were received and Run returns.
IdmReturn ==
    /\ proc = "idm" /\ pc = "wait"
    /\ sem.got = NumTasks
    /\ pc' = "done"
    /\ task' = EmptyMap
    /\ sem' = [cap |-> 0, buf |-> 0, got |-> 0]
    /\ UNCHANGED <<feedVars, proc, run, rdrVars, base, loc, input, scanVars, mainVars>>

\* Bounds of the feeds handed to IDMinimizer.
IdmTrips == 2       \* trips of a feed
IdmServices == 1    \* services of the largest feed

\* IDMinimizer.Base: main passes 10 or 36; 2 makes identifiers of several
\* digits appear in small collections.
Bases == {2, 10, 36}

\* A feed of one route, IdmTrips trips, one stop, one agency, no shape and
\* nServ services.
IdmFeed(nServ) ==
    InitFeed(1, IdmTrips, 0, RulesOf(<<RuleObj(1, 1)>>, NoRest),
             [c \in OtherColls |->
                 CASE c = "Services" -> nServ
                   [] c = "Shapes" -> 0
                   [] OTHER -> 1])

InitIdm ==
    /\ \E nServ \in 0..IdmServices, b \in Bases :
          /\ IdmFeed(nServ)
          /\ base = b
    /\ proc = "idm"
    /\ pc = "start"
    /\ run = 1
    /\ par = MaxParallelism
    /\ opts = NoOpts
    /\ drv = NoDrv
    /\ InitLocals

NextIdm ==
    \/ IdmStart
    \/ \E c \in Tasks : IdmMinimize(c)
    \/ \E c \in Tasks : IdmSignal(c)
    \/ IdmReceive
    \/ IdmReturn
    \/ RunAgain

SpecIdm == InitIdm /\ [][NextIdm]_vars

\* The Go scheduler lets every goroutine that can run take its next step:
\* each of the six goroutines, and the one executing Run.
IdmFairness ==
    /\ \A c \in Tasks : WF_vars(IdmMinimize(c) \/ IdmSignal(c))
    /\ WF_vars(IdmStart \/ IdmReceive \/ IdmReturn)

\* One Run with Base 10 on a feed of any number of services up to
\* IdmServices.
InitIdmLive ==
    /\ \E nServ \in 0..IdmServices : IdmFeed(nServ)
    /\ base = 10
    /\ proc = "idm"
    /\ pc = "start"
    /\ run = 1
    /\ par = MaxParallelism
    /\ opts = NoOpts
    /\ drv = NoDrv
    /\ InitLocals

NextIdmOnce ==
    \/ IdmStart
    \/ \E c \in Tasks : IdmMinimize(c)
    \/ \E c \in Tasks : IdmSignal(c)
    \/ IdmReceive
    \/ IdmReturn

SpecIdmLive == InitIdmLive /\ [][NextIdmOnce]_vars /\ IdmFairness

----------------------------------------------------------------------------
(* IDMinimizer.Run with the goroutines' loops taken one entity at a time.  *)

\* The Id field of object e of collection c is set to id.
setId(c, e, id) ==
    /\ Trip' = IF c = "Trips" THEN [Trip EXCEPT ![e].Id = id] ELSE Trip
    /\ Route' = IF c = "Routes" THEN [Route EXCEPT ![e].Id = id] ELSE Route
    /\ entId' = IF c \in OtherColls THEN [entId EXCEPT ![c][e] = id] ELSE entId

\* Lines 61-64: the goroutine of collection c enters its function; the range
\* over the collection will yield its keys in some order.
TaskBegin(c) ==
    /\ proc = "idm" /\ pc = "wait" /\ task[c] = "todo"
    /\ \E order \in Perms(DOMAIN feed[c]) :
         loc' = MapPut(loc, c, [coll |-> feed[c], order |-> order, i |-> 1,
                                idCount |-> 1, newMap |-> EmptyMap])
    /\ task' = [task EXCEPT ![c] = "loop"]
    /\ UNCHANGED <<feedVars, proc, pc, run, rdrVars, base, sem, input,
                   scanVars, mainVars>>

\* Lines 65-67: one iteration of the loop.
TaskRename(c) ==
    /\ proc = "idm" /\ pc = "wait" /\ task[c] = "loop"
    /\ loc[c].i <= Len(loc[c].order)
    /\ LET e == loc[c].coll[loc[c].order[loc[c].i]]
           id == newId(loc[c].idCount, base)
       IN  /\ setId(c, e, id)
           /\ loc' = [loc EXCEPT ![c].i = @ + 1, ![c].idCount = @ + 1,
                                 ![c].newMap = MapPut(@, id, e)]
    /\ UNCHANGED <<feed, FareAttribute, proc, pc, run, rdrVars, base, task, sem,
                   input, scanVars, mainVars>>

\* Line 70: the loop is over and the new map replaces the collection.
TaskAssign(c) ==
    /\ proc = "idm" /\ pc = "wait" /\ task[c] = "loop"
    /\ loc[c].i > Len(loc[c].order)
    /\ feed' = assignColl(feed, c, loc[c].newMap)
    /\ task' = [task EXCEPT ![c] = "min"]
    /\ UNCHANGED <<Route, Trip, FareAttribute, entId, proc, pc, run, rdrVars,
                   base, sem, loc, input, scanVars, mainVars>>

NextIdmSteps ==
    \/ IdmStart
    \/ \E c \in Tasks : TaskBegin(c)
    \/ \E c \in Tasks : TaskRename(c)
    \/ \E c \in Tasks : TaskAssign(c)
    \/ \E c \in Tasks : IdmSignal(c)
    \/ IdmReceive
    \/ IdmReturn

\* The feeds of these runs hold IdmServices services; Base is 10.
InitIdmSteps ==
    /\ IdmFeed(IdmServices)
    /\ base = 10
    /\ proc = "idm"
    /\ pc = "start"
    /\ run = 1
    /\ par = MaxParallelism
    /\ opts = NoOpts
    /\ drv = NoDrv
    /\ InitLocals

SpecIdmSteps == InitIdmSteps /\ [][NextIdmSteps]_vars

----------------------------------------------------------------------------
(* main: the command line, the parser, the processors and the writer.      *)

\* The processor flags of the command line.
Flags == {"useOrphanDeleter", "useShapeMinimizer", "useShapeRemeasurer",
          "useRedShapeRemover", "useRedRouteMinimizer",
          "useRedServiceMinimizer", "useIDMinimizerNum", "useIDMinimizerChar",
          "useServiceMinimizer", "useFrequencyMinimizer"}

\* A processor value: its type and its one field (Epsilon, MaxEqDistance or
\* Base), 0 for a type without fields.
Processor(name, arg) == [name |-> name, arg |-> arg]

\* Mutant of parseOpts: the leniency flags are passed on as given.
parseOptsAsGiven(o) ==
    [UseDefValueOnError |-> o.useDefaultValuesOnError,
     DropErroneous |-> o.dropErroneousEntities,
     DryRun |-> o.onlyValidate]

\* Lines 65-67: the options handed to the parser.
parseOpts(o) ==
    [UseDefValueOnError |-> o.useDefaultValuesOnError /\ ~o.onlyValidate,
     DropErroneous |-> o.dropErroneousEntities /\ ~o.onlyValidate,
     DryRun |-> o.onlyValidate]

\* Lines 82-120: the list minzers for the flags `use`.
minzersOf(use) ==
    (IF "useOrphanDeleter" \in use
     THEN <<Processor("OrphanRemover", 0)>> ELSE <<>>)
    \o (IF {"useShapeRemeasurer", "useShapeMinimizer", "useRedShapeRemover"}
             \cap use # {}
        THEN <<Processor("ShapeRemeasurer", 0)>> ELSE <<>>)
    \o (IF "useShapeMinimizer" \in use
        THEN <<Processor("ShapeMinimizer", 1)>> ELSE <<>>)
    \o (IF "useRedShapeRemover" \in use
        THEN <<Processor("ShapeDuplicateRemover", 10)>> ELSE <<>>)
    \o (IF "useRedRouteMinimizer" \in use
        THEN <<Processor("RouteDuplicateRemover", 0)>> ELSE <<>>)
    \o (IF "useRedServiceMinimizer" \in use
        THEN <<Processor("ServiceDuplicateRemover", 0)>> ELSE <<>>)
    \o (IF "useServiceMinimizer" \in use
        THEN <<Processor("ServiceMinimizer", 0)>> ELSE <<>>)
    \o (IF "useFrequencyMinimizer" \in use
        THEN <<Processor("FrequencyMinimizer", 0)>> ELSE <<>>)
    \o (IF "useIDMinimizerNum" \in use
        THEN <<Processor("IDMinimizer", 10)>>
        ELSE IF "useIDMinimizerChar" \in use
        THEN <<Processor("IDMinimizer", 36)>> ELSE <<>>)

ProcessorNames ==
    {"OrphanRemover", "ShapeRemeasurer", "ShapeMinimizer",
     "ShapeDuplicateRemover", "RouteDuplicateRemover",
     "ServiceDuplicateRemover", "ServiceMinimizer", "FrequencyMinimizer",
     "IDMinimizer"}

\* The goroutines a Run starts and joins: one per chunk in
\* RouteDuplicateRemover, one per collection in IDMinimizer.
workersOf(name) ==
    CASE name = "RouteDuplicateRemover" -> par
      [] name = "IDMinimizer" -> NumTasks
      [] OTHER -> 0

\* Mutant of joined: Run returns without receiving the workers' signals.
joinedEarly(w) == TRUE

\* Run's receive loop has taken one signal from each of its workers.
joined(w) == w = 0

\* Only RouteDuplicateRemover is known to panic (combineRoutes, line 198).
mayPanic(name) == name = "RouteDuplicateRemover"

\* Lines 58-62: the deferred function recovers a panic and prints it; main
\* then returns, which ends the process with status 0.
recovered(d) ==
    [d EXCEPT !.pc = "exited", !.panicked = TRUE, !.diag = TRUE, !.exit = 0,
              !.active = {}]

\* os.Exit(code) after a diagnostic (diag) or without one.
exited(d, code, diag) ==
    [d EXCEPT !.pc = "exited", !.exit = code, !.diag = @ \/ diag]

\* Lines 44-56: the flags are parsed; help and a missing input path end main.
MainStart ==
    /\ proc = "main" /\ drv.pc = "start"
    /\ drv' = CASE opts.mode = "help" -> exited(drv, 0, FALSE)
                [] opts.mode = "nopath" -> exited(drv, 1, TRUE)
                [] OTHER -> [drv EXCEPT !.pc = "parse"]
    /\ UNCHANGED <<feedVars, proc, pc, run, rdrVars, idmVars, input, scanVars, opts>>

\* Lines 64-124: the feed is parsed with or without an error e; without one
\* minzers is built, and validation mode ends main.
MainParse ==
    /\ proc = "main" /\ drv.pc = "parse"
    /\ \E e \in BOOLEAN :
         LET d == [drv EXCEPT !.parseOpts = parseOpts(opts), !.parsed = TRUE,
                              !.parseErr = e]
         IN  drv' = IF e THEN exited(d, 1, TRUE)
                    ELSE LET m == [d EXCEPT !.minzers = minzersOf(opts.use)]
                         IN  IF opts.onlyValidate THEN exited(m, 0, FALSE)
                             ELSE [m EXCEPT !.pc = "run", !.idx = 1]
    /\ UNCHANGED <<feedVars, proc, pc, run, rdrVars, idmVars, input, scanVars, opts>>

\* Line 128: m.Run(feed) is called for the next processor of minzers; its
\* goroutines start.
ProcBegin ==
    /\ proc = "main" /\ drv.pc = "run" /\ drv.idx <= Len(drv.minzers)
    /\ LET m == drv.minzers[drv.idx]
       IN  drv' = [drv EXCEPT !.pc = "running",
                              !.active = @ \cup {m.name},
                              !.workers[m.name] = workersOf(m.name),
                              !.ran = Append(@, m)]
    /\ UNCHANGED <<feedVars, proc, pc, run, rdrVars, idmVars, input, scanVars, opts>>

\* A goroutine of processor p sends its completion signal and ends.
WorkerDone(p) ==
    /\ proc = "main" /\ drv.workers[p] > 0
    /\ drv' = [drv EXCEPT !.workers[p] = @ - 1]
    /\ UNCHANGED <<feedVars, proc, pc, run, rdrVars, idmVars, input, scanVars, opts>>

\* m.Run(feed) returns to the loop of line 127.
ProcReturn ==
    /\ proc = "main" /\ drv.pc = "running"
    /\ LET m == drv.minzers[drv.idx]
       IN  /\ joined(drv.workers[m.name])
           /\ drv' = [drv EXCEPT !.pc = "run", !.idx = @ + 1,
                                 !.active = @ \ {m.name}]
    /\ UNCHANGED <<feedVars, proc, pc, run, rdrVars, idmVars, input, scanVars, opts>>

\* m.Run(feed) panics in its single-threaded part; the deferred function of
\* main recovers.
ProcPanic ==
    /\ proc = "main" /\ drv.pc = "running"
    /\ LET m == drv.minzers[drv.idx]
       IN  /\ mayPanic(m.name)
           /\ joined(drv.workers[m.name])
           /\ drv' = recovered(drv)
    /\ UNCHANGED <<feedVars, proc, pc, run, rdrVars, idmVars, input, scanVars, opts>>

\* Lines 131-151: every processor has run; the output file or directory is
\* made if missing and the writer is called, with or without an error e.
MainWrite ==
    /\ proc = "main" /\ drv.pc = "run" /\ drv.idx > Len(drv.minzers)
    /\ \E e \in BOOLEAN :
         LET d == [drv EXCEPT !.wrote = TRUE, !.writeErr = e,
                              !.made = IF opts.outputPath = "out.zip"
                                       THEN "file" ELSE "dir"]
         IN  drv' = IF e THEN exited(d, 1, TRUE) ELSE exited(d, 0, FALSE)
    /\ UNCHANGED <<feedVars, proc, pc, run, rdrVars, idmVars, input, scanVars, opts>>

\* main before flag.Parse: nothing parsed, run, written or printed.
DrvStart ==
    [pc |-> "start",
     parseOpts |-> [UseDefValueOnError |-> FALSE, DropErroneous |-> FALSE,
                    DryRun |-> FALSE],
     parsed |-> FALSE, parseErr |-> FALSE,
     minzers |-> <<>>, idx |-> 0,
     active |-> {}, workers |-> [p \in ProcessorNames |-> 0], ran |-> <<>>,
     panicked |-> FALSE,
     wrote |-> FALSE, writeErr |-> FALSE, made |-> "none",
     diag |-> FALSE, exit |-> -1]

CommandLine(mode, v, e, D, o, use) ==
    [mode |-> mode, onlyValidate |-> v, useDefaultValuesOnError |-> e,
     dropErroneousEntities |-> D, outputPath |-> o, use |-> use]

\* Every set of processor flags, with and without validation mode.
InitAnyProcessors ==
    \E use \in SUBSET Flags, v \in BOOLEAN :
        opts = CommandLine("run", v, FALSE, FALSE, "gtfs-out", use)

\* Every combination of help, input path, validation mode, leniency flags
\* and output path, with no or with all processor flags.
InitAnyOptions ==
    \E mode \in {"help", "nopath", "run"}, v \in BOOLEAN, e \in BOOLEAN,
       D \in BOOLEAN, o \in {"gtfs-out", "out.zip"}, use \in {{}, Flags} :
        opts = CommandLine(mode, v, e, D, o, use)

\* The feed is the parser's and the processors' business, not main's.
InitMain ==
    /\ InitAnyProcessors \/ InitAnyOptions
    /\ drv = DrvStart
    /\ InitFeed(0, 0, 0, RulesOf(<<>>, NoRest), OneAgency)
    /\ proc = "main"
    /\ pc = "none"
    /\ run = 1
    /\ base = 10
    /\ par = MaxParallelism
    /\ InitLocals

NextMain ==
    \/ MainStart
    \/ MainParse
    \/ ProcBegin
    \/ \E p \in ProcessorNames : WorkerDone(p)
    \/ ProcReturn
    \/ ProcPanic
    \/ MainWrite

SpecMain == InitMain /\ [][NextMain]_vars

----------------------------------------------------------------------------
(* RouteDuplicateRemover.Run with getEquivalentRoutes' goroutines taken    *)
(* one step at a time.                                                     *)

\* Mutant of joinCount: the receive loop stops one signal short.
joinCountShort(chs) == Len(chs) - 1

\* Lines 82-84: the number of signals getEquivalentRoutes receives.
joinCount(chs) == Len(chs)

\* Line 73: the test a goroutine applies to route r of its chunk.
equivalentTo(r, route) ==
    /\ r # route
    /\ routeEquals(Route[r], Route[route])
    /\ checkFareEquality(feed.FareAttributes, FareAttribute, route, r)

\* Goroutine j of the running call has not yet sent its signal.
Scanning(j) == scan.route # 0 /\ j \in DOMAIN scan.sent /\ ~scan.sent[j]

\* Lines 45-49 and 67-79: the range over feed.Routes yields the next route;
\* unless it is in proced, getEquivalentRoutes is called, makes rets and sem
\* and starts one goroutine per chunk.
ScanStart ==
    /\ proc = "rdr" /\ pc = "loop"
    /\ \E k \in DOMAIN feed.Routes \ ranged :
         LET r == feed.Routes[k]
         IN  /\ ranged' = ranged \cup {k}
             /\ IF r \in proced
                THEN UNCHANGED <<scan, pc>>
                ELSE /\ scan' = [route |-> r,
                                 pos |-> [j \in DOMAIN chunks |-> 1],
                                 sent |-> [j \in DOMAIN chunks |-> FALSE],
                                 rets |-> [j \in DOMAIN chunks |-> <<>>],
                                 buf |-> 0, got |-> 0]
                     /\ pc' = "scan"
    /\ UNCHANGED <<feedVars, proc, run, chunks, trips, proced, comb, idmVars,
                   input, par, mainVars>>

\* Lines 72-76: goroutine j tests the next route of its chunk.
WorkerScan(j) ==
    /\ proc = "rdr" /\ Scanning(j)
    /\ scan.pos[j] <= Len(chunks[j])
    /\ LET r == chunks[j][scan.pos[j]]
       IN  scan' = [scan EXCEPT
                      !.pos[j] = @ + 1,
                      !.rets[j] = IF equivalentTo(r, scan.route)
                                  THEN Append(@, r) ELSE @]
    /\ UNCHANGED <<feedVars, proc, pc, run, rdrVars, idmVars, input, par, mainVars>>

\* Line 77: goroutine j is through its chunk and sends on sem, a channel
\* with room for one signal per chunk.
WorkerSignal(j) ==
    /\ proc = "rdr" /\ Scanning(j)
    /\ scan.pos[j] > Len(chunks[j])
    /\ scan.buf < Len(chunks)
    /\ scan' = [scan EXCEPT !.sent[j] = TRUE, !.buf = @ + 1]
    /\ UNCHANGED <<feedVars, proc, pc, run, rdrVars, idmVars, input, par, mainVars>>

\* Lines 82-84: getEquivalentRoutes receives a signal.
ScanReceive ==
    /\ proc = "rdr" /\ pc = "scan"
    /\ scan.got < joinCount(chunks) /\ scan.buf > 0
    /\ scan' = [scan EXCEPT !.buf = @ - 1, !.got = @ + 1]
    /\ UNCHANGED <<feedVars, proc, pc, run, rdrVars, idmVars, input, par, mainVars>>

\* Lines 86-93 and 51-52: the signals are in; rets is concatenated and
\* returned, and Run calls combineRoutes if there is an equivalent route.
ScanJoin ==
    /\ proc = "rdr" /\ pc = "scan"
    /\ scan.got >= joinCount(chunks)
    /\ LET eqRoutes == Flatten(scan.rets)
           routes == Append(eqRoutes, scan.route)
       IN  IF Len(eqRoutes) > 0
           THEN /\ comb' = [routes |-> routes,
                            ref |-> pickRef(routes, 1, routes[1], Route),
                            i |-> 1]
                /\ pc' = "combine"
           ELSE /\ comb' = comb
                /\ pc' = "loop"
    /\ UNCHANGED <<feedVars, proc, run, chunks, trips, proced, ranged, idmVars,
                   input, scanVars, mainVars>>

\* The feeds of these runs: up to NumRoutes routes alike, up to MaxRules
\* rules of one kind in the first fare attribute.
InitPar ==
    /\ \E n \in 0..NumRoutes :
         \E r1 \in SeqsUpTo(RuleValues(n, {1}), MaxRules) :
            InitFeed(n, NumTrips, 0, RulesOf(r1, NoRest), OneAgency)
    /\ par \in 1..MaxParallelism
    /\ proc = "rdr"
    /\ pc = "start"
    /\ run = 1
    /\ base = 10
    /\ opts = NoOpts
    /\ drv = NoDrv
    /\ InitLocals

NextPar ==
    \/ RunStart
    \/ ScanStart
    \/ \E j \in 1..(MaxParallelism + 1) : WorkerScan(j)
    \/ \E j \in 1..(MaxParallelism + 1) : WorkerSignal(j)
    \/ ScanReceive
    \/ ScanJoin
    \/ CombineStep
    \/ RunReturn

SpecPar == InitPar /\ [][NextPar]_vars

----------------------------------------------------------------------------
(* Vocabulary of the claims about RouteDuplicateRemover.                   *)

Returned == proc = "rdr" /\ pc = "done"

InRoutes(r) == r \in Range(feed.Routes)

InputRoutes == Range(input.feed.Routes)

FieldIdentical(a, b) == routeEquals(Route[a], Route[b])

\* Some attribute of the input holds a rule on x with no rule of equal
\* origin/destination/contains identifiers on y.
UnmatchedRule(x, y) ==
    \E f \in Range(input.feed.FareAttributes) :
        LET rules == input.FareAttribute[f].Rules
        IN  \E i \in DOMAIN rules :
                /\ rules[i].Route = x
                /\ ~\E j \in DOMAIN rules :
                        rules[j].Route = y /\ ruleMatches(rules[i], rules[j])

NoFareRule(r) ==
    \A f \in Range(input.feed.FareAttributes) :
        \A i \in DOMAIN input.FareAttribute[f].Rules :
            input.FareAttribute[f].Rules[i].Route # r

\* The routes of the input alike r in every field and, like r, without fares.
FareFreeGroup(r) ==
    {x \in InputRoutes : FieldIdentical(x, r) /\ NoFareRule(x)}

\* Equivalence as the processor defines it, on the input and on the feed now.
EquivalentIn(fares, heap, a, b) ==
    FieldIdentical(a, b) /\ checkFareEquality(fares, heap, a, b)

InputClass(r) ==
    {x \in InputRoutes :
        x = r \/ EquivalentIn(input.feed.FareAttributes, input.FareAttribute, x, r)}

\* A list of rules as a multiset.
BagOfRules(rules) ==
    [v \in Range(rules) |-> Cardinality({i \in DOMAIN rules : rules[i] = v})]

RulesOff(rules, r) == SelectSeq(rules, LAMBDA x : x.Route # r)

\* The step being taken supersedes a route (combineRoutes' loop body for a
\* route other than ref).
Superseding == proc = "rdr" /\ pc = "combine" /\ comb.routes[comb.i] # comb.ref

----------------------------------------------------------------------------
(* Claims.                                                                 *)

\* C1: after Run, of every group of two or more input routes alike in all
\* descriptive fields and without fare rules exactly one is left in
\* feed.Routes, every trip of the group references it, and no route of the
\* group has a shorter identifier.
C1_GroupMergedToShortest ==
    (Returned /\ run = 1) =>
        \A r \in InputRoutes :
            (NoFareRule(r) /\ Cardinality(FareFreeGroup(r)) >= 2) =>
                \E s \in FareFreeGroup(r) :
                    /\ {x \in FareFreeGroup(r) : InRoutes(x)} = {s}
                    /\ \A t \in DOMAIN Trip :
                          input.Trip[t].Route \in FareFreeGroup(r)
                              => Trip[t].Route = s
                    /\ \A x \in FareFreeGroup(r) :
                          Len(Route[s].Id) <= Len(Route[x].Id)

\* C2: after Run, two input routes alike in all fields, one of which has a
\* fare rule the other does not match, are both still in feed.Routes and
\* their trips reference the route they referenced in the input.
C2_UnmatchedNotMerged ==
    (Returned /\ run = 1) =>
        \A x, y \in InputRoutes :
            (x # y /\ FieldIdentical(x, y) /\ UnmatchedRule(x, y)) =>
                /\ InRoutes(x) /\ InRoutes(y)
                /\ \A t \in DOMAIN Trip :
                      input.Trip[t].Route \in {x, y}
                          => Trip[t].Route = input.Trip[t].Route

\* C3: after Run every trip and every remaining fare rule references a route
\* that is in feed.Routes.
C3_NoDanglingRoute ==
    Returned =>
        /\ \A t \in Range(feed.Trips) : InRoutes(Trip[t].Route)
        /\ \A f \in Range(feed.FareAttributes) :
              \A i \in DOMAIN FareAttribute[f].Rules :
                  InRoutes(FareAttribute[f].Rules[i].Route)

\* C4: after Run no two routes of feed.Routes are field-identical and
\* fare-compatible on the resulting feed, and of every equivalence class of
\* the input exactly one route is left.
C4_ClassesMergedToOne ==
    (Returned /\ run = 1) =>
        /\ \A a, b \in Range(feed.Routes) :
              a # b => ~EquivalentIn(feed.FareAttributes, FareAttribute, a, b)
        /\ \A r \in InputRoutes :
              Cardinality({x \in InputClass(r) : InRoutes(x)}) = 1

\* C5: a step of combineRoutes that supersedes a route does not fail, and
\* leaves in every fare attribute the rules it held minus the rules on the
\* superseded route, as a multiset.
C5_RulesRemovedExactly ==
    [][Superseding =>
          /\ pc' # "panic"
          /\ \A f \in DOMAIN FareAttribute :
                BagOfRules(FareAttribute'[f].Rules)
                    = BagOfRules(RulesOff(FareAttribute[f].Rules,
                                          comb.routes[comb.i]))]_vars

\* C6: a step deletes a fare attribute exactly if its rule list was not
\* empty before the step and is empty after it; an attribute that is empty in
\* the input stays in feed.FareAttributes, and so does one that has rules.
C6_AttrDeletedIffEmptied ==
    [][\A f \in DOMAIN FareAttribute :
          /\ (f \in Range(feed.FareAttributes)
                 /\ f \notin Range(feed'.FareAttributes))
             <=> (/\ f \in Range(feed.FareAttributes)
                  /\ Len(FareAttribute[f].Rules) > 0
                  /\ Len(FareAttribute'[f].Rules) = 0)
          /\ Len(input.FareAttribute[f].Rules) = 0
                => f \in Range(feed'.FareAttributes)
          /\ Len(FareAttribute'[f].Rules) > 0
                => f \in Range(feed'.FareAttributes)]_vars

\* C6 witness: a route with fare rules has been superseded and its rules
\* removed from an attribute that keeps others, next to an attribute that is
\* empty since the input.
C6_Witness ==
    /\ Returned
    /\ \E f, g \in Range(feed.FareAttributes) :
          /\ Len(FareAttribute[f].Rules) > 0
          /\ Len(FareAttribute[f].Rules) < Len(input.FareAttribute[f].Rules)
          /\ Len(input.FareAttribute[g].Rules) = 0

\* C7: the second Run changes nothing: no route, fare attribute or fare rule
\* goes and no trip is repointed.
C7_SecondRunNoOp ==
    [][(proc = "rdr" /\ run = 2) =>
          /\ feed' = feed
          /\ Trip' = Trip
          /\ FareAttribute' = FareAttribute]_vars

\* C7 witness: the second Run has returned on a feed from which the first
\* removed a route.
C7_Witness ==
    /\ Returned /\ run = 2
    /\ DOMAIN feed.Routes # DOMAIN input.feed.Routes

----------------------------------------------------------------------------
(* Vocabulary of the claims about IDMinimizer.                             *)

IdmReturned == proc = "idm" /\ pc = "done"

\* id is a numeral in base b without a leading zero.
IsNumeral(id, b) ==
    /\ Len(id) > 0
    /\ \A i \in DOMAIN id : \E d \in 1..b : Digits[d] = id[i]
    /\ Len(id) > 1 => id[1] # "0"

DigitValue(ch) == CHOOSE d \in 0..35 : Digits[d + 1] = ch

\* The number a numeral stands for.
RECURSIVE IdValue(_, _)
IdValue(id, b) ==
    IF Len(id) = 0 THEN 0
    ELSE IdValue(SubSeq(id, 1, Len(id) - 1), b) * b + DigitValue(id[Len(id)])

\* The keys of m are the numerals of 1..n in base b, one each.
KeyedByNumerals(m, n, b) ==
    /\ Cardinality(DOMAIN m) = n
    /\ \A k \in DOMAIN m : IsNumeral(k, b)
    /\ {IdValue(k, b) : k \in DOMAIN m} = 1..n

\* C8: the second Run of IDMinimizer renames no entity.
C8_SecondRunKeepsIds ==
    [][(proc = "idm" /\ run = 2) =>
          /\ [t \in DOMAIN Trip |-> Trip'[t].Id] = [t \in DOMAIN Trip |-> Trip[t].Id]
          /\ [r \in DOMAIN Route |-> Route'[r].Id] = [r \in DOMAIN Route |-> Route[r].Id]
          /\ entId' = entId]_vars

\* C9: after Run each of the six renumbered collections is keyed by the
\* numerals of 1..n in base Base, pairwise distinct, each key maps to an
\* object whose Id is that key, and the collection holds the n objects it
\* held in the input, each once.
C9_RenumberedOneToN ==
    IdmReturned =>
        \A c \in Tasks :
            LET m == feed[c]
                n == Cardinality(DOMAIN input.feed[c])
            IN  /\ KeyedByNumerals(m, n, base)
                /\ \A k \in DOMAIN m : IdsOf(c)[m[k]] = k
                /\ Range(m) = Range(input.feed[c])
                /\ Cardinality(Range(m)) = n

\* C9 witness: Run has returned on a collection whose identifiers needed a
\* second digit and whose objects were enumerated against their input order.
C9_Witness ==
    /\ IdmReturned /\ run = 1
    /\ \E k \in DOMAIN feed.Trips : Len(k) = 2 /\ feed.Trips[k] = 1
    /\ DOMAIN feed.Trips # DOMAIN input.feed.Trips

\* C10: after Run every collection of the feed, FareAttributes included, is
\* keyed by renumbered identifiers.
C10_EveryCollectionRenumbered ==
    IdmReturned =>
        \A c \in Tasks \cup {"FareAttributes"} :
            KeyedByNumerals(feed[c], Cardinality(DOMAIN input.feed[c]), base)

----------------------------------------------------------------------------
(* Vocabulary of the claims about main.                                    *)

Exited == proc = "main" /\ drv.pc = "exited"

\* A parse failure, a write failure or a panic of a processor.
Failed == drv.parseErr \/ drv.writeErr \/ drv.panicked

\* The order in which the processors are to run.
ProcOrder ==
    <<"OrphanRemover", "ShapeRemeasurer", "ShapeMinimizer",
      "ShapeDuplicateRemover", "RouteDuplicateRemover",
      "ServiceDuplicateRemover", "ServiceMinimizer", "FrequencyMinimizer",
      "IDMinimizer">>

OrderOf(name) == CHOOSE i \in DOMAIN ProcOrder : ProcOrder[i] = name

Names(ms) == {ms[i].name : i \in DOMAIN ms}

\* The flag that selects the processor `name` (for IDMinimizer either flag).
Selected(name) ==
    CASE name = "OrphanRemover" -> "useOrphanDeleter" \in opts.use
      [] name = "ShapeRemeasurer" -> "useShapeRemeasurer" \in opts.use
      [] name = "ShapeMinimizer" -> "useShapeMinimizer" \in opts.use
      [] name = "ShapeDuplicateRemover" -> "useRedShapeRemover" \in opts.use
      [] name = "RouteDuplicateRemover" -> "useRedRouteMinimizer" \in opts.use
      [] name = "ServiceDuplicateRemover" -> "useRedServiceMinimizer" \in opts.use
      [] name = "ServiceMinimizer" -> "useServiceMinimizer" \in opts.use
      [] name = "FrequencyMinimizer" -> "useFrequencyMinimizer" \in opts.use
      [] name = "IDMinimizer" ->
            {"useIDMinimizerNum", "useIDMinimizerChar"} \cap opts.use # {}

\* C11: when the process has ended, a parse failure, a write failure or a
\* recovered panic of a processor has given exit code 1 and a diagnostic, a
\* missing input path a non-zero code and a diagnostic, and exit code 0 is
\* given only if nothing failed.
C11_FailureExitsWithOne ==
    Exited =>
        /\ Failed => (drv.exit = 1 /\ drv.diag)
        /\ opts.mode = "nopath" => (drv.exit # 0 /\ drv.diag)
        /\ drv.exit = 0 => ~Failed

\* C12: in validation mode, once the command line is accepted, the parser
\* gets both lenient options switched off, the process ends right after
\* parsing with code 1 on a parse error and 0 otherwise, and no processor is
\* started and the writer is not called.
C12_ValidationOnlyParses ==
    (proc = "main" /\ opts.mode = "run" /\ opts.onlyValidate
        /\ drv.pc \notin {"start", "parse"}) =>
        /\ Exited /\ drv.parsed
        /\ drv.exit = (IF drv.parseErr THEN 1 ELSE 0)
        /\ drv.parseOpts = [UseDefValueOnError |-> FALSE,
                            DropErroneous |-> FALSE, DryRun |-> TRUE]
        /\ drv.ran = <<>> /\ drv.active = {}
        /\ \A p \in ProcessorNames : drv.workers[p] = 0
        /\ ~drv.wrote /\ drv.made = "none"

\* C12 witness: validation mode given together with every processor flag,
\* both leniency flags and a zip output path has ended with code 0.
C12_Witness ==
    /\ Exited /\ drv.exit = 0 /\ drv.parsed
    /\ opts.onlyValidate /\ opts.use = Flags
    /\ opts.useDefaultValuesOnError /\ opts.dropErroneousEntities
    /\ opts.outputPath = "out.zip"

\* C13: at most one processor's Run is in progress and only it has running
\* workers; the processors started so far are the selected ones in the
\* order of ProcOrder, each once; ShapeRemeasurer runs before ShapeMinimizer
\* and ShapeDuplicateRemover; IDMinimizer runs at most once, with base 10 if
\* the numeric flag is given; a run that ends in success has run them all.
C13_ProcessorsInSequence ==
    proc = "main" =>
        /\ Cardinality(drv.active) <= 1
        /\ \A p \in ProcessorNames : drv.workers[p] > 0 => p \in drv.active
        /\ drv.pc = "run" => drv.active = {}
        /\ \A i, j \in DOMAIN drv.ran :
              i < j => OrderOf(drv.ran[i].name) < OrderOf(drv.ran[j].name)
        /\ \A i \in DOMAIN drv.ran :
              LET m == drv.ran[i]
              IN  /\ m.name # "ShapeRemeasurer" => Selected(m.name)
                  /\ m.name \in {"ShapeMinimizer", "ShapeDuplicateRemover"}
                        => \E j \in 1..(i - 1) : drv.ran[j].name = "ShapeRemeasurer"
                  /\ m.name = "IDMinimizer" =>
                        m.arg = (IF "useIDMinimizerNum" \in opts.use
                                 THEN 10 ELSE 36)
        /\ (Exited /\ drv.wrote) =>
              Names(drv.ran) = {p \in ProcessorNames :
                                  \/ Selected(p)
                                  \/ /\ p = "ShapeRemeasurer"
                                     /\ \/ Selected("ShapeMinimizer")
                                        \/ Selected("ShapeDuplicateRemover")}

\* C13 witness: a run with both identifier flags and shape minimizing, but
\* not remeasuring, selected has run RouteDuplicateRemover and IDMinimizer
\* with their workers and has written the feed.
C13_Witness ==
    /\ Exited /\ drv.wrote /\ drv.exit = 0
    /\ {"useIDMinimizerNum", "useIDMinimizerChar", "useShapeMinimizer",
        "useRedRouteMinimizer"} \subseteq opts.use
    /\ "useShapeRemeasurer" \notin opts.use
    /\ {"ShapeRemeasurer", "RouteDuplicateRemover", "IDMinimizer"}
          \subseteq Names(drv.ran)

----------------------------------------------------------------------------
(* Claims about the parallel candidate search and its chunks.              *)

SomeScanning == \E j \in DOMAIN scan.sent : Scanning(j)

\* The goroutines whose result slot the step changes.
SlotsWritten == {j \in DOMAIN scan.rets : scan'.rets[j] # scan.rets[j]}

\* C14: in every step of a run, (1) a step within one getEquivalentRoutes
\* call that changes rets changes the slot of one goroutine only, by
\* appending a route of that goroutine's chunk at the position the goroutine
\* has reached; (2) while a goroutine has not signalled the graph does not
\* change; (3) getEquivalentRoutes reads rets and returns only when every
\* goroutine has signalled and one signal per goroutine was received;
\* (4) the graph changes only in combineRoutes, with no goroutine running.
C14_ScanIsolatedAndJoined ==
    [][/\ (scan.route # 0 /\ scan'.route = scan.route /\ pc' = pc
              /\ scan'.rets # scan.rets) =>
              \E j \in DOMAIN scan.rets :
                 /\ SlotsWritten = {j}
                 /\ Scanning(j)
                 /\ scan.pos[j] \in DOMAIN chunks[j]
                 /\ scan'.rets[j] = Append(scan.rets[j], chunks[j][scan.pos[j]])
                 /\ \A i \in DOMAIN scan.pos :
                       i # j => scan'.pos[i] = scan.pos[i]
       /\ SomeScanning => feedVars' = feedVars
       /\ (pc = "scan" /\ pc' # "scan") =>
              /\ ~SomeScanning
              /\ scan.got = Len(chunks)
              /\ \A j \in DOMAIN chunks : scan.pos[j] = Len(chunks[j]) + 1
       /\ feedVars' # feedVars => (pc = "combine" /\ ~SomeScanning)]_vars

\* C14 witness: two goroutines with routes to scan have both found an
\* equivalent route, one has signalled and been received while the other has
\* not signalled yet.
C14_Witness ==
    /\ proc = "rdr" /\ pc = "scan"
    /\ \E i, j \in DOMAIN scan.rets :
          /\ i # j
          /\ Len(scan.rets[i]) > 0 /\ Len(scan.rets[j]) > 0
          /\ scan.sent[i] /\ ~scan.sent[j]
          /\ scan.got = 1

\* The routes a chunk list holds, one entry per occurrence.
Placed(chs) == Flatten(chs)

\* C17: while Run loops, chunks holds MaxParallelism() chunks, each route of
\* the collection Run started on sits in exactly one of them, no chunk is
\* longer than ceil(n/k), and the chunking did not index out of range; and
\* when the goroutines of a search have signalled, their results are,
\* without repetition, exactly the routes of feed.Routes other than the
\* subject that are field-identical to it and fare-compatible with it.
C17_ChunksPartitionRoutes ==
    proc = "rdr" =>
        /\ pc # "panic"
        /\ pc \in {"loop", "scan", "combine"} =>
              LET n == Cardinality(DOMAIN input.feed.Routes)
              IN  /\ Len(chunks) = par
                  /\ Len(Placed(chunks)) = n
                  /\ Range(Placed(chunks)) = Range(input.feed.Routes)
                  /\ \A j \in DOMAIN chunks :
                        Len(chunks[j]) * par < n + par
        /\ (pc = "scan" /\ ~SomeScanning) =>
              LET ret == Flatten(scan.rets)
              IN  /\ Cardinality(Range(ret)) = Len(ret)
                  /\ Range(ret) =
                        {x \in Range(feed.Routes) :
                            /\ x # scan.route
                            /\ EquivalentIn(feed.FareAttributes, FareAttribute,
                                            x, scan.route)}

----------------------------------------------------------------------------
(* Claims about the merge phase of RouteDuplicateRemover.                  *)

\* Run's range over feed.Routes (line 45) has begun and is not exhausted.
RangingRoutes == proc = "rdr" /\ pc \in {"loop", "combine"}

\* The step runs combineRoutes' range over feed.FareAttributes (line 187).
RangingFares == Superseding

\* C15: no step taken while Run's enumeration of feed.Routes is in progress
\* removes a key from feed.Routes, and no step that enumerates
\* feed.FareAttributes removes a key from feed.FareAttributes.
C15_NoDeleteWhileRanging ==
    [][/\ RangingRoutes => DOMAIN feed.Routes \subseteq DOMAIN feed'.Routes
       /\ RangingFares =>
             DOMAIN feed.FareAttributes \subseteq DOMAIN feed'.FareAttributes]_vars

\* C18: feed.Trips is at every moment the collection of the input; after Run
\* every trip's route is field-identical to the route the trip had in the
\* input; and a trip whose input route had no field-identical,
\* fare-compatible duplicate in the input still has that route.
C18_TripsKeepTheirRoute ==
    proc = "rdr" =>
        /\ feed.Trips = input.feed.Trips
        /\ (Returned /\ run = 1) =>
              \A t \in Range(feed.Trips) :
                  /\ FieldIdentical(Trip[t].Route, input.Trip[t].Route)
                  /\ InputClass(input.Trip[t].Route) = {input.Trip[t].Route}
                        => Trip[t].Route = input.Trip[t].Route

----------------------------------------------------------------------------
(* Claims about IDMinimizer's goroutines.                                  *)

\* The identifiers the objects of collection c carry in the input.
InputIds(c) ==
    [e \in Range(input.feed[c]) |->
        CHOOSE k \in DOMAIN input.feed[c] : input.feed[c][k] = e]

\* The collections whose map or whose objects' Id fields the step changes.
Written ==
    {c \in DOMAIN feed : feed'[c] # feed[c]}
        \cup {c \in Tasks : IdsOf(c)' # IdsOf(c)}

\* The step is one of the goroutine of collection c.
StepOf(c) ==
    /\ c \in DOMAIN task /\ c \in DOMAIN task'
    /\ \/ task'[c] # task[c]
       \/ c \in DOMAIN loc /\ loc'[c] # loc[c]

\* What the goroutine of collection c makes of the input when run alone.
AloneOn(c) ==
    {minimizeIds(input.feed[c], order, InputIds(c), base) :
        order \in Perms(DOMAIN input.feed[c])}

\* Every collection and its objects' identifiers are what its goroutine
\* makes of the input when run alone, and nothing else has changed.
SameAsAlone ==
    /\ \A c \in Tasks :
          \E res \in AloneOn(c) : feed[c] = res.newMap /\ IdsOf(c) = res.ids
    /\ feed.FareAttributes = input.feed.FareAttributes
    /\ \A t \in Range(feed.Trips) : Trip[t].Route \in Range(feed.Routes)

\* C16: a step of Run changes the map and the Id fields of at most one
\* collection, and only as a step of that collection's own goroutine; no
\* step changes a trip's route or a fare rule; and when Run has returned,
\* every collection and its objects' identifiers are what its goroutine
\* makes of the input when run alone in some enumeration order,
\* FareAttributes is as in the input and every trip's route is in
\* feed.Routes.
C16_TasksWriteOwnCollection ==
    [][proc = "idm" =>
          /\ \A c \in Written : c \in Tasks /\ StepOf(c)
          /\ Cardinality(Written) <= 1
          /\ \A t \in DOMAIN Trip : Trip'[t].Route = Trip[t].Route
          /\ FareAttribute' = FareAttribute
          /\ (IdmReturned => SameAsAlone)']_vars

\* C16 witness: the goroutines of trips and routes are both inside their
\* loops, each with an entity renamed, while that of stops has replaced its
\* collection and signalled.
C16_Witness ==
    /\ proc = "idm" /\ pc = "wait"
    /\ task["Trips"] = "loop" /\ loc["Trips"].idCount = 2
    /\ task["Routes"] = "loop" /\ loc["Routes"].idCount = 2
    /\ task["Stops"] = "sent"
    /\ feed.Stops # input.feed.Stops
    /\ feed.Trips = input.feed.Trips

\* C19: Run returns only in a state in which each of the six goroutines has
\* finished its collection and sent its signal, so that none is left blocked
\* on sem; and every Run that is started returns, whatever the capacity of
\* sem.
C19_RunReturnsAfterAllSignals ==
    /\ [][(proc = "idm" /\ pc = "wait" /\ pc' = "done") =>
             \A c \in Tasks : task[c] = "sent"]_vars
    /\ (proc = "idm" /\ pc = "start") ~> IdmReturned

\* C19 witness: Run has returned on a feed without services, whose channel
\* has no buffer.
C19_Witness ==
    /\ IdmReturned
    /\ input.feed.Services = EmptyMap
    /\ sem.got = 0 /\ task = EmptyMap

====
